---- MODULE Spec2Model ----
(***************************************************************************)
(* Heads-up Monte Carlo equity engine of server_eval7_multi.py:            *)
(* card/board text parsing, the blocker-aware Sampler, deck completion,    *)
(* and the trial loop of equity_hu with its aggregation.                   *)
(*                                                                         *)
(* Text is a sequence of one-character strings.  A card is a number in     *)
(* 1..DeckSize, in the order eval7.Deck() lists the deck (rank major,      *)
(* suit minor).  Range weights are whole numbers; the draw r of a          *)
(* weighted sample is the exact fraction u * total_w / RngMod.             *)
(***************************************************************************)
EXTENDS Integers, Sequences, FiniteSets, TLC

VARIABLES pc, call, hero_src, vill_src, board_str, board, iters, seed, rng,
          hero_sampler, vill_sampler, i, hero, vill, h_w, v_w, ties,
          outcome, hist, first, entry, probe

vars == <<pc, call, hero_src, vill_src, board_str, board, iters, seed, rng,
          hero_sampler, vill_sampler, i, hero, vill, h_w, v_w, ties,
          outcome, hist, first, entry, probe>>

----------------------------------------------------------------------------
(* Bounds of the model *)

\* largest requested iteration count
MaxIters == 2
\* seeds are drawn from 0..MaxSeed
MaxSeed == 3
\* number of states of the pseudo-random generator; random() yields u/RngMod
RngMod == 8

(* Program constants *)

\* eval7.Deck() holds 52 cards
DeckSize == 52
\* a full board has 5 cards
FullBoard == 5
\* a two-card hand text has exactly 4 characters
HandChars == 4

----------------------------------------------------------------------------
(* Cards and text *)

RankChars == <<"2", "3", "4", "5", "6", "7", "8", "9", "T", "J", "Q", "K", "A">>
SuitChars == <<"c", "d", "h", "s">>

Elems(s) == {s[k] : k \in DOMAIN s}

IndexOf(s, x) == CHOOSE k \in DOMAIN s : s[k] = x

\* eval7.Card(code): a two-character rank+suit code; 0 stands for the
\* exception eval7 raises on an unknown rank or suit
Card(code) ==
    IF Len(code) = 2 /\ code[1] \in Elems(RankChars) /\ code[2] \in Elems(SuitChars)
    THEN (IndexOf(RankChars, code[1]) - 1) * Len(SuitChars) + IndexOf(SuitChars, code[2])
    ELSE 0

Deck == [k \in 1..DeckSize |-> k]

CardRank(c) == ((c - 1) \div Len(SuitChars)) + 2

IsSpace(ch) == ch = " "

RECURSIVE LStrip(_)
LStrip(s) == IF s # <<>> /\ IsSpace(Head(s)) THEN LStrip(Tail(s)) ELSE s

RECURSIVE RStrip(_)
RStrip(s) ==
    IF s # <<>> /\ IsSpace(s[Len(s)]) THEN RStrip(SubSeq(s, 1, Len(s) - 1)) ELSE s

\* str.strip()
Strip(s) == RStrip(LStrip(s))

Ok(v) == [ok |-> TRUE, err |-> "", val |-> v]
Raise(e) == [ok |-> FALSE, err |-> e, val |-> <<>>]

\* parse_two_card_hand
parse_two_card_hand(text) ==
    LET s == Strip(text) IN
    IF Len(s) # HandChars THEN Raise("ValueError: two-card hand must be 4 chars")
    ELSE LET c1 == Card(SubSeq(s, 1, 2))
             c2 == Card(SubSeq(s, 3, 4))
         IN IF c1 = 0 \/ c2 = 0 THEN Raise("eval7.Card: invalid card code")
            ELSE Ok(<<c1, c2>>)

\* a board-length test that accepts every count up to five
BoardLenOk_UpToFive(n) == n \in 0..5

BoardLenOk(n) == n \in {0, 3, 4, 5}

\* parse_board
parse_board(text) ==
    LET s == Strip(text) IN
    IF s = <<>> THEN Ok(<<>>)
    ELSE IF Len(s) % 2 # 0 THEN Raise("ValueError: board string must have even length")
    ELSE LET cards == [k \in 1..(Len(s) \div 2) |-> Card(SubSeq(s, 2 * k - 1, 2 * k))]
         IN IF \E k \in DOMAIN cards : cards[k] = 0
            THEN Raise("eval7.Card: invalid card code")
            ELSE IF ~BoardLenOk(Len(cards))
            THEN Raise("ValueError: board must be 0, 3, 4 or 5 cards")
            ELSE Ok(cards)

----------------------------------------------------------------------------
(* random.Random: a deterministic generator whose whole state is rng *)

\* random.Random(seed): the state after seeding
Seeded(sd) == sd % RngMod

\* one step of the generator
RngStep(x) == (5 * x + 3) % RngMod

\* rng.random(): the value u/RngMod in [0, 1), and the generator advanced
RngRandom(x) == [u |-> RngStep(x), rng |-> RngStep(x)]

\* rng's randbelow(n), one generator step: a number in 0..n-1
RandBelow(x, n) == [j |-> (RngStep(x) * n) \div RngMod, rng |-> RngStep(x)]

Swap(s, a, b) == [s EXCEPT ![a] = s[b], ![b] = s[a]]

\* rng.shuffle(deck): for i in reversed(range(1, len)): j = randbelow(i+1); swap
RECURSIVE Shuffle(_, _, _)
Shuffle(d, k, x) ==
    IF k < 2 THEN [deck |-> d, rng |-> x]
    ELSE LET rb == RandBelow(x, k)
         IN Shuffle(Swap(d, k, rb.j + 1), k - 1, rb.rng)

Min(a, b) == IF a < b THEN a ELSE b
Max(a, b) == IF a > b THEN a ELSE b

\* Python's deck[:n]
Slice(d, n) ==
    IF n >= 0 THEN SubSeq(d, 1, Min(n, Len(d)))
    ELSE SubSeq(d, 1, Max(Len(d) + n, 0))

\* deal_remaining(dead, n, rng)
deal_remaining(dead, n, x) ==
    LET deck == SelectSeq(Deck, LAMBDA c : c \notin Elems(dead))
        sh == Shuffle(deck, Len(deck), x)
    IN [cards |-> Slice(sh.deck, n), rng |-> sh.rng]

----------------------------------------------------------------------------
(* Sampler *)

Delimiters == {",", ";", "+", "(", ")", " "}

\* detect_is_range
detect_is_range(text) ==
    LET s == Strip(text) IN
    IF Len(s) = HandChars THEN \E k \in DOMAIN s : s[k] \in Delimiters
    ELSE TRUE

\* Sampler(text, detect_is_range(text)) with __post_init__.  A source is the
\* text together with hr, the (card, card, weight) list eval7.HandRange
\* yields for that text; hr is read only when the text is a range.
NewSampler(src) ==
    IF detect_is_range(src.text)
    THEN Ok([is_range |-> TRUE, fixed |-> <<>>, hr |-> src.hr])
    ELSE LET h == parse_two_card_hand(src.text)
         IN IF h.ok THEN Ok([is_range |-> FALSE, fixed |-> h.val, hr |-> <<>>])
            ELSE h

\* a live filter that tests only the first card of a combo against dead
Live_FirstCardOnly(hr, dead_set) ==
    SelectSeq(hr, LAMBDA it : it[1] \notin dead_set /\ it[1] # it[2])

\* a live filter without the equal-cards test
Live_KeepEqualCards(hr, dead_set) ==
    SelectSeq(hr, LAMBDA it : ~(it[1] \in dead_set \/ it[2] \in dead_set))

\* the live list built by the loop of Sampler.sample
Live(hr, dead_set) ==
    SelectSeq(hr, LAMBDA it : /\ ~(it[1] \in dead_set \/ it[2] \in dead_set)
                              /\ it[1] # it[2])

RECURSIVE SumW(_)
SumW(live) == IF live = <<>> THEN 0 ELSE live[1][3] + SumW(Tail(live))

\* the cumulative walk: the first k with r <= acc, else the fallback (last).
\* r is u * total_w / RngMod, so r <= acc is u * total_w <= acc * RngMod.
RECURSIVE Walk(_, _, _, _)
Walk(live, k, acc, rnum) ==
    IF k > Len(live) THEN Len(live)
    ELSE LET a == acc + live[k][3]
         IN IF rnum <= a * RngMod THEN k ELSE Walk(live, k + 1, a, rnum)

WeightedPick(live, u) == Walk(live, 1, 0, u * SumW(live))

SampleOk(h, x, w) == [ok |-> TRUE, err |-> "", val |-> h, rng |-> x, w |-> w]
SampleRaise(e, x) == [ok |-> FALSE, err |-> e, val |-> <<>>, rng |-> x, w |-> 0]

\* a sample whose fixed hand is returned without looking at dead
sample_FixedUnchecked(s, x, dead) ==
    LET dead_set == Elems(dead) IN
    IF ~s.is_range THEN SampleOk(s.fixed, x, 1)
    ELSE LET live == Live(s.hr, dead_set) IN
         IF live = <<>>
         THEN SampleRaise("ValueError: no live combos left in range", x)
         ELSE LET rr == RngRandom(x)
                  k == WeightedPick(live, rr.u)
              IN SampleOk(<<live[k][1], live[k][2]>>, rr.rng, live[k][3])

\* Sampler.sample(rng, dead); w is the weight of the combo returned
sample(s, x, dead) ==
    LET dead_set == Elems(dead) IN
    IF ~s.is_range
    THEN IF \E k \in DOMAIN s.fixed : s.fixed[k] \in dead_set
         THEN SampleRaise("ValueError: fixed hand collides with dead cards", x)
         ELSE SampleOk(s.fixed, x, 1)
    ELSE LET live == Live(s.hr, dead_set) IN
         IF live = <<>>
         THEN SampleRaise("ValueError: no live combos left in range", x)
         ELSE LET rr == RngRandom(x)
                  k == WeightedPick(live, rr.u)
              IN SampleOk(<<live[k][1], live[k][2]>>, rr.rng, live[k][3])

----------------------------------------------------------------------------
(* Inputs *)

As == Card(<<"A", "s">>)
Ks == Card(<<"K", "s">>)
Kd == Card(<<"K", "d">>)
Kc == Card(<<"K", "c">>)
Qh == Card(<<"Q", "h">>)
Qd == Card(<<"Q", "d">>)
c2c == Card(<<"2", "c">>)
c7d == Card(<<"7", "d">>)
c9h == Card(<<"9", "h">>)
c2d == Card(<<"2", "d">>)
Ts == Card(<<"T", "s">>)
Js == Card(<<"J", "s">>)

HandSrc(t) == [text |-> t, hr |-> <<>>]
RangeSrc(t, hr) == [text |-> t, hr |-> hr]

FixedSources ==
    { HandSrc(<<"A", "s", "K", "s">>),
      HandSrc(<<"Q", "h", "Q", "d">>),
      HandSrc(<<"A", "h", "K", "d">>),
      HandSrc(<<"A", "s", "A", "s">>),
      HandSrc(<<" ", "2", "c", "7", "d", " ">>),
      HandSrc(<<"Z", "z", "1", "1">>) }

RangeSources ==
    { RangeSrc(<<"0", "(", "A", "s", "K", "d", ")", ",", "Q", "h", "Q", "d">>,
               << <<As, Kd, 0>>, <<Qh, Qd, 1>> >>),
      RangeSrc(<<"A", "s", "K", "s", ",", "Q", "h", "Q", "d">>,
               << <<As, Ks, 1>>, <<Qh, Qd, 1>> >>),
      RangeSrc(<<"2", "c", "7", "d", ",", "2", "c", "9", "h">>,
               << <<c2c, c7d, 1>>, <<c2c, c9h, 1>> >>),
      RangeSrc(<<"A", "K", "s", "+">>,
               << <<As, Ks, 2>>, <<Kd, Kc, 1>>, <<As, As, 1>> >>) }

Sources == FixedSources \union RangeSources

----------------------------------------------------------------------------
(* Applying sample and deal_remaining to given arguments *)

NoProbe == [op |-> "none"]

NoSampler == [is_range |-> FALSE, fixed |-> <<>>, hr |-> <<>>]

ProbeSamplers == {NewSampler(src).val : src \in {q \in Sources : NewSampler(q).ok}}
    \union { [is_range |-> TRUE, fixed |-> <<>>, hr |-> << <<As, Kd, 0>> >>],
             [is_range |-> TRUE, fixed |-> <<>>,
              hr |-> << <<Qh, Qd, 1>>, <<As, Kd, 0>>, <<c2c, c7d, 2>> >>] }

ProbeDeads ==
    { <<>>, <<As>>, <<Kd>>, <<Qh, Qd>>, <<c2c, c7d, c9h>>,
      <<c2c, c7d, c9h, As, Ks>>, <<Ks, Ks, c7d>>, <<Kc, Qd, c2d, Ts, Js>> }

DeckPrefix(k) == SubSeq(Deck, 1, k)

DealDeads ==
    { DeckPrefix(k) : k \in {0, 3, 7, 9, DeckSize - 5, DeckSize - 4, DeckSize - 2, DeckSize} }
    \union { <<As, Ks, Qh, Qd, c2c, c7d, c9h>>, <<c2c, c2c, c7d, As, Ks, Qh, Qd>> }

Idle ==
    /\ call = 0 /\ hero_src = HandSrc(<<>>) /\ vill_src = HandSrc(<<>>)
    /\ board_str = <<>> /\ board = <<>> /\ iters = 0 /\ seed = 0 /\ rng = 0
    /\ hero_sampler = NoSampler /\ vill_sampler = NoSampler /\ i = 0
    /\ hero = <<>> /\ vill = <<>> /\ h_w = 0 /\ v_w = 0 /\ ties = 0
    /\ outcome = <<>> /\ hist = <<>> /\ first = <<>> /\ entry = "none"

UnchangedEngine ==
    UNCHANGED <<call, hero_src, vill_src, board_str, board, iters, seed, rng,
                hero_sampler, vill_sampler, i, hero, vill, h_w, v_w, ties,
                outcome, hist, first, entry>>

InitSample ==
    /\ pc = "probe"
    /\ Idle
    /\ \E s \in ProbeSamplers, d \in ProbeDeads, x \in 0..(RngMod - 1) :
          probe = [op |-> "sample", sampler |-> s, dead |-> d, x |-> x]

\* one call Sampler.sample(rng, dead)
ProbeSample ==
    /\ pc = "probe"
    /\ probe.op = "sample"
    /\ pc' = "probed"
    /\ probe' = [op |-> "sampled", sampler |-> probe.sampler, dead |-> probe.dead,
                 x |-> probe.x, res |-> sample(probe.sampler, probe.x, probe.dead)]
    /\ UnchangedEngine

SpecSample == InitSample /\ [][ProbeSample]_vars

InitDeal ==
    /\ pc = "probe"
    /\ Idle
    /\ \E d \in DealDeads, n \in 0..FullBoard, x \in 0..(RngMod - 1) :
          probe = [op |-> "deal", dead |-> d, n |-> n, x |-> x]

\* one call deal_remaining(dead, n, rng)
ProbeDeal ==
    /\ pc = "probe"
    /\ probe.op = "deal"
    /\ pc' = "probed"
    /\ probe' = [op |-> "dealt", dead |-> probe.dead, n |-> probe.n, x |-> probe.x,
                 res |-> deal_remaining(probe.dead, probe.n, probe.x)]
    /\ UnchangedEngine

SpecDeal == InitDeal /\ [][ProbeDeal]_vars

----------------------------------------------------------------------------
(* equity_hu *)

\* seed=None: the generator is seeded from the operating system
NoSeed == 0 - 1

\* a generator shared by all calls and never reseeded
RandomStates_Shared(sd, cur) == {cur}

\* random.Random(seed): the states the new generator can start in; cur is
\* the state of the generator of the previous call, which a new one ignores
RandomStates(sd, cur) ==
    IF sd = NoSeed THEN 0..(RngMod - 1) ELSE {Seeded(sd)}

\* a collision test that leaves the board out
Collides_HandsOnly(h, v, b) ==
    Cardinality(Elems(h) \union Elems(v)) # Len(h) + Len(v)

\* len({*hero, *vill, *board}) != len(hero) + len(vill) + len(board)
Collides(h, v, b) ==
    Cardinality(Elems(h) \union Elems(v) \union Elems(b)) # Len(h) + Len(v) + Len(b)

RECURSIVE SumRanks(_)
SumRanks(cards) ==
    IF cards = <<>> THEN 0 ELSE CardRank(Head(cards)) + SumRanks(Tail(cards))

\* best5_eval: eval7.evaluate is an external, deterministic strength of the
\* cards given, independent of their order; here the sum of the five
\* highest ranks (all the ranks, when fewer than six cards are given)
best5_eval(cards) ==
    IF Len(cards) < 6 THEN SumRanks(cards)
    ELSE LET lo1 == CHOOSE k \in DOMAIN cards :
                       \A j \in DOMAIN cards : CardRank(cards[k]) <= CardRank(cards[j])
             rest == DOMAIN cards \ {lo1}
             lo2 == CHOOSE k \in rest :
                       \A j \in rest : CardRank(cards[k]) <= CardRank(cards[j])
         IN IF Len(cards) = 6 THEN SumRanks(cards) - CardRank(cards[lo1])
            ELSE SumRanks(cards) - CardRank(cards[lo1]) - CardRank(cards[lo2])

\* the counter a trial increments
Classify(hs, vs) == IF hs > vs THEN "hero" ELSE IF vs > hs THEN "villain" ELSE "tie"

NoOutcome ==
    [kind |-> "none", err |-> "", hero_equity |-> <<0, 1>>, villain_equity |-> <<0, 1>>,
     hero_wins |-> 0, villain_wins |-> 0, ties |-> 0, iters |-> 0]

Error(e) == [NoOutcome EXCEPT !.kind = "error", !.err = e]

ZeroTrials == "RuntimeError: simulation produced zero completed trials"
BadBoard == "ValueError: board must have 0, 3, 4 or 5 cards"

\* (wins + 0.5 * t) / total as the fraction <<numerator, denominator>>
Equity(wins, t, total) == <<2 * wins + t, 2 * total>>

\* a result built without the test for zero completed trials
Result_NoZeroCheck(h, v, t) ==
    LET total == h + v + t IN
    [kind |-> "result", err |-> "",
     hero_equity |-> Equity(h, t, total), villain_equity |-> Equity(v, t, total),
     hero_wins |-> h, villain_wins |-> v, ties |-> t, iters |-> total]

\* lines 196-210: the result dict, or the error raised
Result(h, v, t) ==
    LET total == h + v + t IN
    IF total = 0 THEN Error(ZeroTrials)
    ELSE [kind |-> "result", err |-> "",
          hero_equity |-> Equity(h, t, total), villain_equity |-> Equity(v, t, total),
          hero_wins |-> h, villain_wins |-> v, ties |-> t, iters |-> total]

\* what is recorded about a call, beside the program's own state:
\*   draws     the generator state before each use of rng, with who used it
\*   skipped   trials given up;  counted  trials classified
\*   resampled villain resamples in the current trial
\*   blocked   a sample was asked of a sampler with no combo free of dead
\*   last      the last trial ended: its cards, strengths, counters before
NoTrial == [kind |-> "none", cards |-> <<>>, hs |-> 0, vs |-> 0, before |-> <<0, 0, 0>>]

NoHist ==
    [draws |-> <<>>, skipped |-> 0, counted |-> 0, resampled |-> 0,
     blocked |-> FALSE, built |-> FALSE, finalized |-> FALSE, last |-> NoTrial]

\* no combo of the sampler is disjoint from dead
Blocked(s, dead) ==
    IF s.is_range
    THEN \A k \in DOMAIN s.hr : s.hr[k][1] \in Elems(dead) \/ s.hr[k][2] \in Elems(dead)
    ELSE \E k \in DOMAIN s.fixed : s.fixed[k] \in Elems(dead)

Fail(e) ==
    /\ outcome' = Error(e)
    /\ pc' = "done"

\* api_equity_street, up to its call of equity_hu
ApiStreet ==
    /\ pc = "api_street"
    /\ LET b == parse_board(board_str) IN
         IF b.ok
         THEN /\ board' = b.val
              /\ pc' = "call"
              /\ UNCHANGED outcome
         ELSE /\ Fail(b.err)
              /\ UNCHANGED board
    /\ UNCHANGED <<call, hero_src, vill_src, board_str, iters, seed, rng, hero_sampler,
                   vill_sampler, i, hero, vill, h_w, v_w, ties, hist, first, entry, probe>>

\* equity_hu, lines 158-167
EquityStart ==
    /\ pc = "call"
    /\ \E x \in RandomStates(seed, rng) : rng' = x
    /\ LET hsm == NewSampler(hero_src)
           vsm == NewSampler(vill_src)
       IN IF ~hsm.ok
          THEN /\ Fail(hsm.err)
               /\ hist' = NoHist
               /\ UNCHANGED <<hero_sampler, vill_sampler>>
          ELSE IF ~vsm.ok
          THEN /\ Fail(vsm.err)
               /\ hist' = NoHist
               /\ hero_sampler' = hsm.val
               /\ UNCHANGED vill_sampler
          ELSE /\ hero_sampler' = hsm.val
               /\ vill_sampler' = vsm.val
               /\ hist' = [NoHist EXCEPT !.built = TRUE]
               /\ IF ~BoardLenOk(Len(board))
                  THEN Fail(BadBoard)
                  ELSE /\ pc' = "loop"
                       /\ outcome' = NoOutcome
    /\ h_w' = 0 /\ v_w' = 0 /\ ties' = 0 /\ i' = 0
    /\ UNCHANGED <<call, hero_src, vill_src, board_str, board, iters, seed,
                   hero, vill, first, entry, probe>>

Drew(tag) == [hist EXCEPT !.draws = Append(@, <<tag, rng>>)]

\* line 171
SampleHero ==
    /\ pc = "loop"
    /\ i < iters
    /\ LET r == sample(hero_sampler, rng, board)
           h1 == [Drew("hero") EXCEPT !.resampled = 0,
                                      !.blocked = @ \/ Blocked(hero_sampler, board)]
       IN /\ hist' = h1
          /\ rng' = r.rng
          /\ IF r.ok
             THEN /\ hero' = r.val
                  /\ pc' = "vill"
                  /\ UNCHANGED outcome
             ELSE /\ Fail(r.err)
                  /\ UNCHANGED hero
    /\ UNCHANGED <<call, hero_src, vill_src, board_str, board, iters, seed, hero_sampler,
                   vill_sampler, i, vill, h_w, v_w, ties, first, entry, probe>>

\* line 172
SampleVill ==
    /\ pc = "vill"
    /\ LET r == sample(vill_sampler, rng, board \o hero)
           h1 == [Drew("villain") EXCEPT
                     !.blocked = @ \/ Blocked(vill_sampler, board \o hero)]
       IN /\ hist' = h1
          /\ rng' = r.rng
          /\ IF r.ok
             THEN /\ vill' = r.val
                  /\ pc' = "check"
                  /\ UNCHANGED outcome
             ELSE /\ Fail(r.err)
                  /\ UNCHANGED vill
    /\ UNCHANGED <<call, hero_src, vill_src, board_str, board, iters, seed, hero_sampler,
                   vill_sampler, i, hero, h_w, v_w, ties, first, entry, probe>>

\* lines 174-179: the collision was detected
Resample ==
    /\ pc = "check"
    /\ Collides(hero, vill, board)
    /\ LET r == sample(vill_sampler, rng, board \o hero)
           h1 == [Drew("resample") EXCEPT
                     !.resampled = @ + 1,
                     !.blocked = @ \/ Blocked(vill_sampler, board \o hero)]
       IN /\ rng' = r.rng
          /\ IF ~r.ok
             THEN /\ Fail(r.err)
                  /\ hist' = h1
                  /\ UNCHANGED <<vill, i>>
             ELSE /\ vill' = r.val
                  /\ UNCHANGED outcome
                  /\ IF Collides(hero, r.val, board)
                     THEN /\ i' = i + 1
                          /\ pc' = "loop"
                          /\ hist' = [h1 EXCEPT
                                 !.skipped = @ + 1,
                                 !.last = [kind |-> "skipped",
                                           cards |-> hero \o r.val \o board,
                                           hs |-> 0, vs |-> 0,
                                           before |-> <<h_w, v_w, ties>>]]
                     ELSE /\ pc' = "check"
                          /\ hist' = h1
                          /\ UNCHANGED i
    /\ UNCHANGED <<call, hero_src, vill_src, board_str, board, iters, seed, hero_sampler,
                   vill_sampler, hero, h_w, v_w, ties, first, entry, probe>>

\* lines 181-194
DealAndScore ==
    /\ pc = "check"
    /\ ~Collides(hero, vill, board)
    /\ LET dead == hero \o vill \o board
           remain == FullBoard - Len(board)
           d == deal_remaining(dead, remain, rng)
           full_board == board \o d.cards
           hs == best5_eval(hero \o full_board)
           vs == best5_eval(vill \o full_board)
           won == Classify(hs, vs)
       IN /\ rng' = d.rng
          /\ h_w' = IF won = "hero" THEN h_w + 1 ELSE h_w
          /\ v_w' = IF won = "villain" THEN v_w + 1 ELSE v_w
          /\ ties' = IF won = "tie" THEN ties + 1 ELSE ties
          /\ hist' = [Drew("board") EXCEPT
                         !.counted = @ + 1,
                         !.last = [kind |-> "counted",
                                   cards |-> hero \o vill \o full_board,
                                   hs |-> hs, vs |-> vs,
                                   before |-> <<h_w, v_w, ties>>]]
    /\ i' = i + 1
    /\ pc' = "loop"
    /\ UNCHANGED <<call, hero_src, vill_src, board_str, board, iters, seed, hero_sampler,
                   vill_sampler, hero, vill, outcome, first, entry, probe>>

\* lines 196-210
Finalize ==
    /\ pc = "loop"
    /\ i >= iters
    /\ outcome' = Result(h_w, v_w, ties)
    /\ hist' = [hist EXCEPT !.finalized = TRUE]
    /\ pc' = "done"
    /\ UNCHANGED <<call, hero_src, vill_src, board_str, board, iters, seed, rng,
                   hero_sampler, vill_sampler, i, hero, vill, h_w, v_w, ties,
                   first, entry, probe>>

\* the caller repeats the request with the same arguments
CallAgain ==
    /\ pc = "done"
    /\ call = 1
    /\ call' = 2
    /\ first' = [outcome |-> outcome, draws |-> hist.draws]
    /\ pc' = IF entry = "street" THEN "api_street" ELSE "call"
    /\ UNCHANGED <<hero_src, vill_src, board_str, board, iters, seed, rng, hero_sampler,
                   vill_sampler, i, hero, vill, h_w, v_w, ties, outcome, hist,
                   entry, probe>>

----------------------------------------------------------------------------
(* Requests *)

\* the number of card codes in a board text, and its padding
MaxBoardUnits == 6
MaxPad == 1

BoardCards == <<c2c, c7d, c9h, Ts, Js, c2d, Kc>>

CodeOf(c) == <<RankChars[((c - 1) \div Len(SuitChars)) + 1],
               SuitChars[((c - 1) % Len(SuitChars)) + 1]>>

\* the text of k codes, the codes at the positions in bad being no card
RECURSIVE Codes(_, _)
Codes(k, bad) ==
    IF k = 0 THEN <<>>
    ELSE Codes(k - 1, bad) \o (IF k \in bad THEN <<"Z", "z">>
                               ELSE CodeOf(BoardCards[((k - 1) % Len(BoardCards)) + 1]))

Pad(n) == [k \in 1..n |-> " "]

BoardStrings ==
    { Pad(l) \o Codes(k, bad) \o tail \o Pad(r) :
        l \in 0..MaxPad, r \in 0..MaxPad, k \in 0..MaxBoardUnits,
        bad \in {{}, {1}, {2}}, tail \in {<<>>, <<"A">>} }
    \union { <<"2", "c", "2", "c", "7", "d">>, <<"2", "c", " ", "7", "d", "9", "h">> }

Boards ==
    { <<>>, <<c2c, c7d, c9h>>, <<c2c, c2c, c7d>>, <<c2c, c7d, c9h, Ts, Js>>,
      <<c2c>>, <<c2c, c7d, c9h, Ts, Js, c2d>> }

AsKs == HandSrc(<<"A", "s", "K", "s">>)
QhQd == HandSrc(<<"Q", "h", "Q", "d">>)

Fresh ==
    /\ call = 1 /\ rng = 0 /\ hero_sampler = NoSampler /\ vill_sampler = NoSampler
    /\ i = 0 /\ hero = <<>> /\ vill = <<>> /\ h_w = 0 /\ v_w = 0 /\ ties = 0
    /\ outcome = NoOutcome /\ hist = NoHist
    /\ first = [outcome |-> NoOutcome, draws |-> <<>>] /\ probe = NoProbe

\* POST /equity/street with a board text
InitStreet ==
    /\ pc = "api_street" /\ entry = "street"
    /\ board_str \in BoardStrings
    /\ board = <<>>
    /\ hero_src = AsKs /\ vill_src = QhQd
    /\ iters = 1 /\ seed = 1
    /\ Fresh

\* equity_hu called with a seed
InitSeeded ==
    /\ pc = "call" /\ entry = "direct"
    /\ board_str = <<>>
    /\ board \in Boards
    /\ hero_src \in Sources /\ vill_src \in Sources
    /\ iters \in 0..MaxIters
    /\ seed \in 0..MaxSeed
    /\ Fresh

\* equity_hu called without a seed
InitUnseeded ==
    /\ pc = "call" /\ entry = "direct"
    /\ board_str = <<>>
    /\ board \in {<<>>, <<c2c, c7d, c9h>>}
    /\ hero_src \in RangeSources /\ vill_src \in {AsKs, QhQd}
    /\ iters = 1
    /\ seed = NoSeed
    /\ Fresh

Init == InitStreet \/ InitSeeded \/ InitUnseeded

Next ==
    \/ ApiStreet
    \/ EquityStart
    \/ SampleHero
    \/ SampleVill
    \/ Resample
    \/ DealAndScore
    \/ Finalize
    \/ CallAgain

Spec == Init /\ [][Next]_vars

----------------------------------------------------------------------------
(* Properties *)

Sampled == probe.op = "sampled"
SampledLive == Live(probe.sampler.hr, Elems(probe.dead))

\* C1: whenever Sampler.sample returns a hand, for a fixed hand or a range,
\* any dead cards and any random draw, neither returned card is in dead.
C1_SampleAvoidsDead ==
    (Sampled /\ probe.res.ok) =>
        \A k \in DOMAIN probe.res.val : probe.res.val[k] \notin Elems(probe.dead)

\* a range some of whose combos are blocked, sampled to its last live combo
C1_Witness ==
    /\ Sampled /\ probe.res.ok /\ probe.sampler.is_range
    /\ Len(SampledLive) >= 2
    /\ Len(SampledLive) < Len(probe.sampler.hr)
    /\ \E k \in DOMAIN probe.sampler.hr : probe.sampler.hr[k][2] \in Elems(probe.dead)
    /\ probe.res.val = <<SampledLive[Len(SampledLive)][1], SampledLive[Len(SampledLive)][2]>>

\* C2: a weighted draw over a live list of positive total weight never
\* returns a combo of weight 0, for any draw r in [0, total_live_weight).
C2_ZeroWeightNeverDrawn ==
    (Sampled /\ probe.res.ok /\ probe.sampler.is_range /\ SumW(SampledLive) > 0) =>
        probe.res.w > 0

Dealt == probe.op = "dealt"

\* C3: deal_remaining(dead, n, rng) returns exactly n cards, pairwise
\* distinct, none of them in dead, also when fewer than n cards remain.
C3_DealExact ==
    Dealt =>
        /\ Len(probe.res.cards) = probe.n
        /\ Cardinality(Elems(probe.res.cards)) = Len(probe.res.cards)
        /\ Elems(probe.res.cards) \cap Elems(probe.dead) = {}

\* C4: a returned result has iters = hero_wins + villain_wins + ties >= 1,
\* the equities (wins + ties/2)/iters summing to 1; a loop that ends with no
\* trial counted raises the zero-completed-trials error and returns nothing.
C4_ResultAggregates ==
    /\ outcome.kind = "result" =>
          /\ outcome.hero_wins = h_w /\ outcome.villain_wins = v_w /\ outcome.ties = ties
          /\ outcome.iters = outcome.hero_wins + outcome.villain_wins + outcome.ties
          /\ outcome.iters >= 1
          /\ outcome.hero_equity = <<2 * outcome.hero_wins + outcome.ties, 2 * outcome.iters>>
          /\ outcome.villain_equity =
                <<2 * outcome.villain_wins + outcome.ties, 2 * outcome.iters>>
          /\ outcome.hero_equity[1] + outcome.villain_equity[1] = 2 * outcome.iters
    /\ (hist.finalized /\ h_w + v_w + ties = 0) =>
          /\ outcome.kind = "error"
          /\ outcome.err = ZeroTrials

\* a result with wins on both sides and a tie
C4_Witness ==
    /\ outcome.kind = "result"
    /\ outcome.ties >= 1
    /\ outcome.hero_wins + outcome.villain_wins >= 1

\* C5: with a seed given, a second call with the same arguments uses the
\* generator in the same order from the same states and ends as the first
\* did: the same result, or the same error.
C5_Deterministic ==
    (call = 2 /\ pc = "done" /\ seed # NoSeed) =>
        /\ outcome = first.outcome
        /\ hist.draws = first.draws

\* a second seeded call that sampled a range and returned a result
C5_Witness ==
    /\ call = 2 /\ pc = "done" /\ seed # NoSeed
    /\ outcome.kind = "result"
    /\ hero_sampler.is_range /\ vill_sampler.is_range
    /\ Len(hist.draws) >= 6
    /\ \E k \in DOMAIN hist.draws : hist.draws[k][2] # Seeded(seed)

BoardLengthErrors ==
    { "ValueError: board string must have even length",
      "ValueError: board must be 0, 3, 4 or 5 cards" }

ParseReturned == entry = "street" /\ pc = "call"
ParseRejected == entry = "street" /\ pc = "done" /\ ~hist.built /\ outcome.kind = "error"

DirectRejects ==
    (entry = "direct" /\ pc # "call" /\ Len(board) \notin {0, 3, 4, 5}) =>
        /\ outcome.kind = "error"
        /\ pc = "done"
        /\ hist.draws = <<>> /\ hist.counted = 0 /\ hist.skipped = 0
        /\ hist.built => outcome.err = BadBoard

\* C6 as stated: parse_board rejects with a board-length error every text
\* whose length is odd or not 0, 6, 8 or 10, and returns a board only for
\* texts of those lengths; equity_hu rejects every board of another count.
C6_AsStated ==
    /\ (entry = "street" /\ pc \in {"call", "done"} /\ call = 1
          /\ Len(board_str) \notin {0, 6, 8, 10}) =>
             (ParseRejected /\ outcome.err \in BoardLengthErrors)
    /\ ParseReturned =>
          (Len(board_str) \in {0, 6, 8, 10} /\ 2 * Len(board) = Len(board_str))
    /\ DirectRejects

StrippedBoard == Strip(board_str)
CodesValid ==
    \A k \in 1..(Len(StrippedBoard) \div 2) :
        Card(SubSeq(StrippedBoard, 2 * k - 1, 2 * k)) # 0

\* C6 amended: the length is that of the text with surrounding whitespace
\* stripped.  An odd length is rejected with the even-length error; an even
\* length other than 0, 6, 8, 10 with the board-count error when every code
\* is a card; a board is returned only for the lengths 0, 6, 8, 10, and then
\* has half as many cards; equity_hu rejects any other count before a trial.
C6_BoardLength ==
    /\ (entry = "street" /\ pc \in {"call", "done"} /\ Len(StrippedBoard) % 2 # 0) =>
          (ParseRejected /\ outcome.err = "ValueError: board string must have even length")
    /\ (entry = "street" /\ pc \in {"call", "done"} /\ Len(StrippedBoard) % 2 = 0
          /\ Len(StrippedBoard) \notin {0, 6, 8, 10} /\ CodesValid) =>
          (ParseRejected /\ outcome.err = "ValueError: board must be 0, 3, 4 or 5 cards")
    /\ ParseReturned =>
          /\ Len(StrippedBoard) \in {0, 6, 8, 10}
          /\ 2 * Len(board) = Len(StrippedBoard)
    /\ DirectRejects

\* a padded text of four codes parsed to a turn board
C6_Witness ==
    /\ ParseReturned
    /\ Len(board) = 4
    /\ Len(board_str) > 8

SamplerErrors ==
    { "ValueError: fixed hand collides with dead cards",
      "ValueError: no live combos left in range" }

\* C7: a sampler with no combo disjoint from its dead cards never yields a
\* hand; the call ends at that trial with the sampler's error, no result.
C7_BlockedIsError ==
    /\ pc = "vill" => ~Blocked(hero_sampler, board)
    /\ pc = "check" => ~Blocked(vill_sampler, board \o hero)
    /\ hist.blocked =>
          /\ pc = "done" \/ (call = 2 /\ pc = "call")
          /\ outcome.kind = "error"
          /\ outcome.err \in SamplerErrors
          /\ hist.counted + hist.skipped = i

\* hero and villain are the same fixed hand of two distinct cards
C7_Witness ==
    /\ pc = "done" /\ hist.blocked
    /\ ~hero_sampler.is_range
    /\ hero_sampler = vill_sampler
    /\ hero_sampler.fixed[1] # hero_sampler.fixed[2]
    /\ hist.draws = <<<<"hero", rng>>, <<"villain", rng>>>>

\* C8: a hand of two equal cards is rejected: no fixed-hand Sampler holds
\* one, and a range holding one is not sampled to a hand.
C8_EqualCardsRejected ==
    /\ \A s \in {hero_sampler, vill_sampler} :
          Len(s.fixed) = 2 => s.fixed[1] # s.fixed[2]
    /\ (pc = "vill" /\ hero_sampler.is_range) =>
          \A k \in DOMAIN hero_sampler.hr : hero_sampler.hr[k][1] # hero_sampler.hr[k][2]

Counters == <<h_w, v_w, ties>>

\* C9: a collision after the first villain sample is answered by one
\* resample; a trial that still collides is given up with no counter
\* changed and no error; a counted trial was scored on 9 distinct cards and
\* added one to exactly the counter its strengths name.
C9_CollisionPolicy ==
    /\ hist.resampled <= 1
    /\ h_w + v_w + ties = hist.counted
    /\ pc \in {"loop", "vill", "check"} => hist.counted + hist.skipped = i
    /\ hist.last.kind = "skipped" =>
          /\ Counters = hist.last.before
          /\ pc = "loop" => (hist.resampled = 1 /\ outcome = NoOutcome)
          /\ Cardinality(Elems(hist.last.cards)) < Len(hist.last.cards)
    /\ hist.last.kind = "counted" =>
          /\ Len(hist.last.cards) = 9
          /\ Cardinality(Elems(hist.last.cards)) = 9
          /\ hist.last.hs > hist.last.vs =>
                Counters = <<hist.last.before[1] + 1, hist.last.before[2], hist.last.before[3]>>
          /\ hist.last.vs > hist.last.hs =>
                Counters = <<hist.last.before[1], hist.last.before[2] + 1, hist.last.before[3]>>
          /\ hist.last.hs = hist.last.vs =>
                Counters = <<hist.last.before[1], hist.last.before[2], hist.last.before[3] + 1>>

\* a trial given up after the one resample of a villain range
C9_Witness ==
    /\ pc = "loop"
    /\ hist.last.kind = "skipped"
    /\ hist.resampled = 1
    /\ vill_sampler.is_range
    /\ i = 1 /\ iters = 2

\* C10 as stated: a returned result counts every requested trial; a request
\* with a skipped trial has every trial skipped and ends in the
\* zero-completed-trials error.
C10_AsStated ==
    /\ outcome.kind = "result" => outcome.iters = iters
    /\ (pc = "done" /\ hist.skipped > 0) =>
          /\ hist.skipped = iters
          /\ outcome.kind = "error" /\ outcome.err = ZeroTrials

\* C10 amended: a returned result counts every requested trial; a request
\* with a skipped trial counts no trial and returns no result: it ends in
\* the zero-completed-trials error, or in the error of a sampler that a
\* later trial finds fully blocked.
C10_AllOrNothing ==
    /\ outcome.kind = "result" => (outcome.iters = iters /\ hist.skipped = 0)
    /\ hist.skipped > 0 => (hist.counted = 0 /\ h_w + v_w + ties = 0)
    /\ (pc = "done" /\ hist.skipped > 0) =>
          /\ outcome.kind = "error"
          /\ \/ outcome.err = ZeroTrials /\ hist.skipped = iters
             \/ outcome.err \in SamplerErrors /\ hist.blocked /\ hist.skipped < iters

\* a request whose first trial was skipped and whose second raised
C10_Witness ==
    /\ pc = "done"
    /\ hist.skipped = 1
    /\ hist.blocked
    /\ outcome.err \in SamplerErrors

====
